---- MODULE Spec2Model ----
(***************************************************************************)
(* A model of lc.py, an untyped lambda-calculus read-eval-print loop:      *)
(* tokenizer, shift-reduce parser with its binding pass, pretty-printer,   *)
(* alpha-equivalence, substitution, the reduction generator, the Church    *)
(* numeral constructor and decoder, and the loop that drives them.         *)
(*                                                                         *)
(* Text is a sequence of one-character strings.  A Python object is a      *)
(* record with a "type" field naming its class.  Python objects are        *)
(* modelled as values: the only in-place mutation in lc.py (Variable.bind, *)
(* and church_numeral building its body) acts on objects that are not yet  *)
(* shared, so a value model loses nothing.  An exception is modelled as a  *)
(* record of type "Error" that every caller passes on.                     *)
(***************************************************************************)
EXTENDS Naturals, Sequences, FiniteSets

-----------------------------------------------------------------------------
(* Characters *)

Digits == <<"0", "1", "2", "3", "4", "5", "6", "7", "8", "9">>

LowerCase ==
  <<"a", "b", "c", "d", "e", "f", "g", "h", "i", "j", "k", "l", "m",
    "n", "o", "p", "q", "r", "s", "t", "u", "v", "w", "x", "y", "z">>

UpperCase ==
  <<"A", "B", "C", "D", "E", "F", "G", "H", "I", "J", "K", "L", "M",
    "N", "O", "P", "Q", "R", "S", "T", "U", "V", "W", "X", "Y", "Z">>

IsDigit(c) == \E i \in DOMAIN Digits : Digits[i] = c

DigitValue(c) == (CHOOSE i \in DOMAIN Digits : Digits[i] = c) - 1

IsSpace(c) == c = " "

\* str.upper() on the characters the model's inputs use inside braces:
\* ASCII letters are mapped, digits and punctuation are left alone.
upper_char(c) ==
  IF \E i \in DOMAIN LowerCase : LowerCase[i] = c
  THEN UpperCase[CHOOSE i \in DOMAIN LowerCase : LowerCase[i] = c]
  ELSE c

upper(s) == [i \in DOMAIN s |-> upper_char(s[i])]

\* re.compile(r'\d+').match(s): some prefix of s is a run of digits.
digits_p_match(s) == Len(s) > 0 /\ IsDigit(s[1])

\* int(s): the digits of s, blanks around them dropped; any other character
\* raises ValueError.  (int() also accepts a sign and underscores between
\* digits; no name that reaches int() here holds either.)
RECURSIVE int_digits(_, _)
int_digits(s, acc) ==
  IF s = <<>> THEN acc
  ELSE int_digits(Tail(s), 10 * acc + DigitValue(Head(s)))

Error(exc, msg) == [type |-> "Error", exc |-> exc, msg |-> msg]

IsError(v) == v.type = "Error"

RECURSIVE strip(_)
\* str.strip() for blanks
strip(s) ==
  IF s = <<>> THEN s
  ELSE IF IsSpace(Head(s)) THEN strip(Tail(s))
  ELSE IF IsSpace(s[Len(s)]) THEN strip(SubSeq(s, 1, Len(s) - 1))
  ELSE s

int(s) ==
  LET d == strip(s)
  IN  IF Len(d) > 0 /\ \A i \in DOMAIN d : IsDigit(d[i])
      THEN [type |-> "int", value |-> int_digits(d, 0)]
      ELSE Error("ValueError", "invalid literal for int()")

-----------------------------------------------------------------------------
(* Tokens and terms *)

\* CtrlTok.stringmap
stringmap(c) ==
  CASE c = "(" -> [type |-> "LParen"]
    [] c = ")" -> [type |-> "RParen"]
    [] c = "λ" -> [type |-> "Lambda"]
    [] c = "." -> [type |-> "Dot"]
    [] c = "=" -> [type |-> "DefineShorthand"]

IsControl(c) == c \in {"(", ")", "λ", ".", "="}

Shorthand(s) == [type |-> "Shorthand", s |-> s]

\* Variable.__init__ with id_counter = ctr; the caller adds one to ctr.
Variable(name, ctr) ==
  [type |-> "Variable", name |-> name, id |-> ctr, bound |-> FALSE]

Application(m, n) == [type |-> "Application", m |-> m, n |-> n]

\* Abstraction(var, term, bind=False)
AbstractionNoBind(var, term) ==
  [type |-> "Abstraction", var |-> var, term |-> term]

IsTerm(e) == e.type \in {"Variable", "Abstraction", "Application"}

-----------------------------------------------------------------------------
(* Term methods.  Python's dynamic dispatch on the class of self is the    *)
(* CASE on the type field in lrepr, bind, bound, alpha_eq and apply.       *)

RECURSIVE lrepr(_)
RECURSIVE bind(_, _)
RECURSIVE bound(_)
RECURSIVE alpha_eq(_, _, _)
RECURSIVE apply(_, _, _)

Shorthand_lrepr(s) == <<"{">> \o s \o <<"}">>

Variable_lrepr(self) == <<self.name>>

Abstraction_lrepr(self) ==
  <<"λ">> \o lrepr(self.var) \o <<".">> \o lrepr(self.term)

Application_lrepr(self) ==
  LET mr == lrepr(self.m)
      nr == lrepr(self.n)
      mp == IF self.m.type = "Abstraction" THEN <<"(">> \o mr \o <<")">> ELSE mr
      np == IF self.n.type # "Variable" THEN <<"(">> \o nr \o <<")">> ELSE nr
  IN  mp \o np

lrepr(self) ==
  CASE self.type = "Shorthand" -> Shorthand_lrepr(self.s)
    [] self.type = "Variable" -> Variable_lrepr(self)
    [] self.type = "Abstraction" -> Abstraction_lrepr(self)
    [] self.type = "Application" -> Application_lrepr(self)

\* The binding pass returns the term as the in-place updates leave it, or
\* the ValueError it raises.
Variable_bind(self, var) ==
  IF self.name = var.name
  THEN IF self.bound
       THEN Error("ValueError", "already bound")
       ELSE [self EXCEPT !.id = var.id, !.bound = TRUE]
  ELSE self

\* Abstraction.bind without its test on the bound name: the pass goes on
\* into an abstraction that binds the same name again.
Abstraction_bind_Descending(self, var) ==
  LET t == bind(self.term, var)
  IN  IF IsError(t) THEN t ELSE [self EXCEPT !.term = t]

Abstraction_bind(self, var) ==
  IF self.var.name = var.name
  THEN self
  ELSE LET t == bind(self.term, var)
       IN  IF IsError(t) THEN t ELSE [self EXCEPT !.term = t]

Application_bind(self, var) ==
  LET m == bind(self.m, var)
  IN  IF IsError(m) THEN m
      ELSE LET n == bind(self.n, var)
           IN  IF IsError(n) THEN n ELSE [self EXCEPT !.m = m, !.n = n]

bind(self, var) ==
  CASE self.type = "Variable" -> Variable_bind(self, var)
    [] self.type = "Abstraction" -> Abstraction_bind(self, var)
    [] self.type = "Application" -> Application_bind(self, var)

\* Abstraction(var, term): the constructor with bind=True.
Abstraction(var, term) ==
  LET t == bind(term, var)
  IN  IF IsError(t) THEN t ELSE AbstractionNoBind(var, t)

Abstraction_bound(self) == bound(self.term)

Application_bound(self) == bound(self.m) /\ bound(self.n)

bound(self) ==
  CASE self.type = "Variable" -> self.bound
    [] self.type = "Abstraction" -> Abstraction_bound(self)
    [] self.type = "Application" -> Application_bound(self)

\* sorted([a, b])
Lesser(a, b) == IF a <= b THEN a ELSE b

Greater(a, b) == IF a <= b THEN b ELSE a

\* renames is a dict from ids to ids: a function on a finite set of ids.
\* renames.get(k) == v
RenamesGetIs(renames, k, v) == k \in DOMAIN renames /\ renames[k] = v

\* renames = renames.copy(); renames[k] = v
RenamesSet(renames, k, v) ==
  [i \in DOMAIN renames \cup {k} |-> IF i = k THEN v ELSE renames[i]]

EmptyRenames == [i \in {} |-> 0]

Variable_alpha_eq(self, other, renames) ==
  IF other.type # "Variable" THEN FALSE
  ELSE RenamesGetIs(renames, Lesser(self.id, other.id),
                    Greater(self.id, other.id))

\* Abstraction.alpha_eq without sorted(): the pair of binder ids is stored
\* as (self, other) and not as (lesser, greater).
Abstraction_alpha_eq_Unsorted(self, other, renames) ==
  IF other.type # "Abstraction" THEN FALSE
  ELSE alpha_eq(self.term, other.term,
                RenamesSet(renames, self.var.id, other.var.id))

Abstraction_alpha_eq(self, other, renames) ==
  IF other.type # "Abstraction" THEN FALSE
  ELSE alpha_eq(self.term, other.term,
                RenamesSet(renames, Lesser(self.var.id, other.var.id),
                           Greater(self.var.id, other.var.id)))

Application_alpha_eq(self, other, renames) ==
  IF other.type # "Application" THEN FALSE
  ELSE alpha_eq(self.m, other.m, renames)
       /\ alpha_eq(self.n, other.n, renames)

alpha_eq(self, other, renames) ==
  CASE self.type = "Variable" -> Variable_alpha_eq(self, other, renames)
    [] self.type = "Abstraction" -> Abstraction_alpha_eq(self, other, renames)
    [] self.type = "Application" -> Application_alpha_eq(self, other, renames)

Variable_apply(self, vid, t) == IF self.id = vid THEN t ELSE self

Abstraction_apply(self, vid, t) ==
  AbstractionNoBind(self.var, apply(self.term, vid, t))

Application_apply(self, vid, t) ==
  Application(apply(self.m, vid, t), apply(self.n, vid, t))

apply(self, vid, t) ==
  CASE self.type = "Variable" -> Variable_apply(self, vid, t)
    [] self.type = "Abstraction" -> Abstraction_apply(self, vid, t)
    [] self.type = "Application" -> Application_apply(self, vid, t)

\* Definition(name, term)
Definition(name, term) ==
  IF ~bound(term)
  THEN Error("SyntaxError", "Shorthands may only have fully bound terms")
  ELSE [type |-> "Definition", name |-> name, term |-> term]

-----------------------------------------------------------------------------
(* Tokenizer.  tokenize(code) is a generator over tokens_p.finditer(code); *)
(* its state is the end of the last match, and Variable tokens take their  *)
(* ids from id_counter as they are produced, one next() at a time.         *)

RECURSIVE SkipSpace(_, _)
\* \s* from position p (1-based): the first position that holds no blank.
SkipSpace(code, p) ==
  IF p <= Len(code) /\ IsSpace(code[p]) THEN SkipSpace(code, p + 1) ELSE p

RECURSIVE DigitsEnd(_, _)
\* [0-9]+ from position p, greedy: the position after the run of digits.
DigitsEnd(code, p) ==
  IF p <= Len(code) /\ IsDigit(code[p]) THEN DigitsEnd(code, p + 1) ELSE p

\* \{[^}]+\} from position p (code[p] = "{"): the position of the closing
\* brace, or 0 when the pattern does not match there.
BraceEnd(code, p) ==
  LET closing == {j \in (p + 1)..Len(code) : code[j] = "}"}
  IN  IF closing = {} THEN 0
      ELSE LET j == CHOOSE k \in closing : \A l \in closing : k <= l
           IN  IF j = p + 1 THEN 0 ELSE j

StopIteration == [type |-> "StopIteration"]

\* No alternative of tokens_p matches at position q.
NoTokenAt(code, q) ==
  \/ q > Len(code)
  \/ code[q] = "}"
  \/ code[q] = "{" /\ BraceEnd(code, q) = 0

\* One next() on the generator: tokens_p matched at last_end, the token it
\* yields, the end of the match and the id counter afterwards.  Where
\* tokens_p does not match, finditer skips ahead or stops, and both raise
\* SyntaxError("malformed input"); but where blanks come first, \s* gives
\* the last of them back and the variable class, which holds the blank,
\* matches it.
tokenize(code, last_end, ctr) ==
  LET q == SkipSpace(code, last_end + 1)
  IN  IF NoTokenAt(code, q) THEN
        IF q > last_end + 1
        THEN [tok |-> Variable(" ", ctr), last_end |-> q - 1, ctr |-> ctr + 1]
        ELSE IF q > Len(code)
        THEN [tok |-> StopIteration, last_end |-> last_end, ctr |-> ctr]
        ELSE [tok |-> Error("SyntaxError", "malformed input"),
              last_end |-> last_end, ctr |-> ctr]
      ELSE IF IsControl(code[q]) THEN
        [tok |-> stringmap(code[q]),
         last_end |-> SkipSpace(code, q + 1) - 1, ctr |-> ctr]
      ELSE IF code[q] = "{" THEN
        LET j == BraceEnd(code, q)
        IN  [tok |-> Shorthand(upper(SubSeq(code, q + 1, j - 1))),
             last_end |-> SkipSpace(code, j + 1) - 1, ctr |-> ctr]
      ELSE IF IsDigit(code[q]) THEN
        LET e == DigitsEnd(code, q)
        IN  [tok |-> Shorthand(SubSeq(code, q, e - 1)),
             last_end |-> SkipSpace(code, e) - 1, ctr |-> ctr]
      ELSE
        [tok |-> Variable(code[q], ctr),
         last_end |-> SkipSpace(code, q + 1) - 1, ctr |-> ctr + 1]

-----------------------------------------------------------------------------
(* Church numerals *)

RECURSIVE church_body(_, _, _)
\* The loop of church_numeral: a.m = Application(a.m, Variable('f')), k
\* times; m is a.m, and the Variables take ids ctr, ctr + 1, ...
church_body(m, k, ctr) ==
  IF k = 0 THEN m
  ELSE church_body(Application(m, Variable("f", ctr)), k - 1, ctr + 1)

\* church_numeral with range(n) for range(n - 1): one f too many.
church_numeral_ExtraF(n, ctr) ==
  LET x == Variable("x", ctr)
  IN  IF n = 0
      THEN [term |-> Abstraction(Variable("f", ctr + 1),
                                 Abstraction(Variable("x", ctr + 2), x)),
            ctr |-> ctr + 3]
      ELSE LET a == Application(
                      church_body(Variable("f", ctr + 1), n, ctr + 2), x)
           IN  [term |-> Abstraction(Variable("f", ctr + n + 2),
                                     Abstraction(Variable("x", ctr + n + 3), a)),
                ctr |-> ctr + n + 4]

\* church_numeral(n) with id_counter = ctr: the term and the counter
\* afterwards.  x takes id ctr, the f's of the body the next n ids, then the
\* outer call's Variable('f') and the inner call's Variable('x').
church_numeral(n, ctr) ==
  LET x == Variable("x", ctr)
  IN  IF n = 0
      THEN [term |-> Abstraction(Variable("f", ctr + 1),
                                 Abstraction(Variable("x", ctr + 2), x)),
            ctr |-> ctr + 3]
      ELSE LET a == Application(
                      church_body(Variable("f", ctr + 1), n - 1, ctr + 2), x)
           IN  [term |-> Abstraction(Variable("f", ctr + n + 1),
                                     Abstraction(Variable("x", ctr + n + 2), a)),
                ctr |-> ctr + n + 3]

NotANumeral == [type |-> "None"]

RECURSIVE church_to_int_loop(_, _, _)
\* while isinstance(t, Application): ... ; the final test and return i
church_to_int_loop(t, f, i) ==
  IF t.type = "Application" THEN
    IF t.n.type # "Variable" THEN NotANumeral
    ELSE IF t.n.id # f.id THEN NotANumeral
    ELSE church_to_int_loop(t.m, f, i + 1)
  ELSE IF t.type # "Variable" \/ t.id # f.id THEN NotANumeral
  ELSE [type |-> "int", value |-> i]

\* church_to_int(t): an int, None, or the AttributeError that reading .n of
\* a Variable raises.
church_to_int(t0) ==
  IF t0.type # "Abstraction" THEN NotANumeral
  ELSE LET f == t0.var
           t1 == t0.term
       IN  IF t1.type # "Abstraction" THEN NotANumeral
           ELSE LET x == t1.var
                    t == t1.term
                IN  IF t.type = "Variable" /\ t.id = x.id
                    THEN [type |-> "int", value |-> 0]
                    ELSE IF t.type = "Abstraction" THEN NotANumeral
                    ELSE IF t.type = "Variable"
                    THEN Error("AttributeError",
                               "'Variable' object has no attribute 'n'")
                    ELSE IF t.n.type # "Variable" \/ t.n.id # x.id
                    THEN NotANumeral
                    ELSE church_to_int_loop(t.m, f, 1)

-----------------------------------------------------------------------------
(* Parser *)

\* isinstance(elem, t) for the classes parse matches on.
IsInstance(elem, t) == IF t = "Term" THEN IsTerm(elem) ELSE elem.type = t

match(stack, types) ==
  IF Len(stack) < Len(types) THEN FALSE
  ELSE \A i \in DOMAIN types :
         IsInstance(stack[Len(stack) - Len(types) + i], types[i])

None == [type |-> "None"]

\* stack with its top k elements popped
Pop(stack, k) == SubSeq(stack, 1, Len(stack) - k)

\* One pass through the body of parse's while True loop.  st holds the
\* locals (stack, lookahead), the generator's position (last_end),
\* Variable.id_counter (ctr) and, once the loop is left, what parse returns
\* or raises (result, None until then).
parse_step(code, shorthands, st) ==
  LET stack == st.stack
      n == Len(stack)
      lookahead == st.lookahead
      raise(e) == [st EXCEPT !.result = e]
      push(k, e) == [st EXCEPT !.stack = Append(Pop(stack, k), e)]
  IN
  CASE match(stack, <<"LParen", "Term", "RParen">>) ->
         \* Reduce by Term -> ( Term )
         push(3, stack[n - 1])
    [] match(stack, <<"Term", "Term">>) ->
         \* Reduce by Application -> Term Term
         push(2, Application(stack[n - 1], stack[n]))
    [] match(stack, <<"Lambda", "Variable", "Dot", "Term">>)
       /\ lookahead.type \in {"None", "RParen"} ->
         \* Reduce by Abstraction -> λ Variable . Term
         LET a == Abstraction(stack[n - 2], stack[n])
         IN  IF IsError(a) THEN raise(a) ELSE push(4, a)
    [] match(stack, <<"Shorthand", "DefineShorthand", "Term">>)
       /\ lookahead.type = "None" ->
         \* Reduce by Definition -> Shorthand = Term
         LET s == stack[n - 2].s
             d == Definition(s, stack[n])
         IN  IF digits_p_match(s)
             THEN raise(Error("SyntaxError",
                              "Church numerals cannot be redefined"))
             ELSE IF IsError(d) THEN raise(d)
             ELSE push(3, d)
    [] match(stack, <<"Shorthand">>)
       /\ lookahead.type # "DefineShorthand" ->
         LET s == stack[n].s
         IN  IF digits_p_match(s) THEN
               LET v == int(s)
               IN  IF IsError(v) THEN raise(v)
                   ELSE LET c == church_numeral(v.value, st.ctr)
                        IN  [st EXCEPT !.stack = Append(Pop(stack, 1), c.term),
                                       !.ctr = c.ctr]
             ELSE IF s \in DOMAIN shorthands THEN push(1, shorthands[s])
             ELSE raise(Error("KeyError", "undefined shorthand"))
    [] OTHER ->
         \* Shift
         IF lookahead.type = "None" THEN
           \* break, and the test after the loop
           IF n = 1 /\ (IsTerm(stack[1]) \/ stack[1].type = "Definition")
           THEN [st EXCEPT !.stack = <<>>, !.result = stack[1]]
           ELSE raise(Error("SyntaxError", "incomplete parse"))
         ELSE
           LET nx == tokenize(code, st.last_end, st.ctr)
           IN  IF IsError(nx.tok)
               THEN [st EXCEPT !.stack = Append(stack, lookahead),
                               !.ctr = nx.ctr, !.result = nx.tok]
               ELSE [st EXCEPT !.stack = Append(stack, lookahead),
                               !.lookahead = IF nx.tok.type = "StopIteration"
                                             THEN None ELSE nx.tok,
                               !.last_end = nx.last_end,
                               !.ctr = nx.ctr]

RECURSIVE parse_passes(_, _, _, _)
\* Up to 2^k passes through the loop, stopping when parse is left.  (Two
\* runs of half the length each, so that the evaluation nests k deep and
\* not 2^k deep.)
parse_passes(code, shorthands, st, k) ==
  IF st.result.type # "None" THEN st
  ELSE IF k = 0 THEN parse_step(code, shorthands, st)
  ELSE parse_passes(code, shorthands,
                    parse_passes(code, shorthands, st, k - 1), k - 1)

RECURSIVE parse_loop(_, _, _, _)
\* while True: passes through the loop until parse is left.
parse_loop(code, shorthands, st, k) ==
  LET r == parse_passes(code, shorthands, st, k)
  IN  IF r.result.type # "None" THEN r
      ELSE parse_loop(code, shorthands, r, k + 1)

\* parse(tokenize(code), shorthands) with Variable.id_counter = ctr: what
\* parse returns or raises, and the counter afterwards.
parse(code, shorthands, ctr) ==
  LET nx == tokenize(code, 0, ctr)
  IN  IF IsError(nx.tok) THEN [result |-> nx.tok, ctr |-> nx.ctr]
      ELSE IF nx.tok.type = "StopIteration"
      THEN [result |-> Error("StopIteration", ""), ctr |-> nx.ctr]
      ELSE LET r == parse_loop(code, shorthands,
                               [stack |-> <<>>, lookahead |-> nx.tok,
                                last_end |-> nx.last_end, ctr |-> nx.ctr,
                                result |-> None], 0)
           IN  [result |-> r.result, ctr |-> r.ctr]

-----------------------------------------------------------------------------
(* Reduction *)

RECURSIVE recursive_reduction(_)
\* The next term the generator recursive_reduction yields, given the term
\* it holds (its argument, or the term it yielded last), or StopIteration.
\* The generator keeps no state but that term: the while loop goes back to
\* its test with term reassigned, each pass over term.m takes the first
\* element of a new generator, and the closing loop maps the generator of
\* the body under the same binder.
recursive_reduction(term) ==
  IF term.type = "Application" THEN
    IF term.m.type = "Abstraction"
    THEN apply(term.m.term, term.m.var.id, term.n)
    ELSE IF term.m.type = "Application"
    THEN LET t == recursive_reduction(term.m)
         IN  IF t.type = "StopIteration" THEN StopIteration
             ELSE Application(t, term.n)
    ELSE StopIteration
  ELSE IF term.type = "Abstraction"
  THEN LET t == recursive_reduction(term.term)
       IN  IF t.type = "StopIteration" THEN StopIteration
           ELSE AbstractionNoBind(term.var, t)
  ELSE StopIteration

-----------------------------------------------------------------------------
(* The read-eval-print loop *)

\* The preloaded shorthands of repl().
defaults ==
  <<
    \* {succ}=λn.λf.λx.f(nfx)
    <<"{", "s", "u", "c", "c", "}", "=", "λ", "n", ".", "λ", "f", ".", "λ",
      "x", ".", "f", "(", "n", "f", "x", ")">>,
    \* {add}=λm.λn.(m{succ}n)
    <<"{", "a", "d", "d", "}", "=", "λ", "m", ".", "λ", "n", ".", "(", "m",
      "{", "s", "u", "c", "c", "}", "n", ")">>,
    \* {mult}=λm.λn.(m({add}n)0)
    <<"{", "m", "u", "l", "t", "}", "=", "λ", "m", ".", "λ", "n", ".", "(",
      "m", "(", "{", "a", "d", "d", "}", "n", ")", "0", ")">>,
    \* {true}=λx.λy.x
    <<"{", "t", "r", "u", "e", "}", "=", "λ", "x", ".", "λ", "y", ".", "x">>,
    \* {false}=λx.λy.y
    <<"{", "f", "a", "l", "s", "e", "}", "=", "λ", "x", ".", "λ", "y", ".",
      "y">>,
    \* {and}=λp.λq.pqp
    <<"{", "a", "n", "d", "}", "=", "λ", "p", ".", "λ", "q", ".", "p", "q",
      "p">>,
    \* {or}=λp.λq.ppq
    <<"{", "o", "r", "}", "=", "λ", "p", ".", "λ", "q", ".", "p", "p", "q">>,
    \* {not}=λp.p{false}{true}
    <<"{", "n", "o", "t", "}", "=", "λ", "p", ".", "p", "{", "f", "a", "l",
      "s", "e", "}", "{", "t", "r", "u", "e", "}">>,
    \* {if}=λp.λa.λb.pab
    <<"{", "i", "f", "}", "=", "λ", "p", ".", "λ", "a", ".", "λ", "b", ".",
      "p", "a", "b">>,
    \* {cons}=λx.λy.λf.fxy
    <<"{", "c", "o", "n", "s", "}", "=", "λ", "x", ".", "λ", "y", ".", "λ",
      "f", ".", "f", "x", "y">>,
    \* {car}=λc.c{true}
    <<"{", "c", "a", "r", "}", "=", "λ", "c", ".", "c", "{", "t", "r", "u",
      "e", "}">>,
    \* {cdr}=λc.c{false}
    <<"{", "c", "d", "r", "}", "=", "λ", "c", ".", "c", "{", "f", "a", "l",
      "s", "e", "}">>,
    \* {nil}=λx.{true}
    <<"{", "n", "i", "l", "}", "=", "λ", "x", ".", "{", "t", "r", "u", "e",
      "}">>,
    \* {pred}=λn.λf.λx.n(λg.λh.h(gf))(λu.x)(λu.u)
    <<"{", "p", "r", "e", "d", "}", "=", "λ", "n", ".", "λ", "f", ".", "λ",
      "x", ".", "n", "(", "λ", "g", ".", "λ", "h", ".", "h", "(", "g", "f",
      ")", ")", "(", "λ", "u", ".", "x", ")", "(", "λ", "u", ".", "u", ")">>,
    \* {sub}=λm.λn.n{pred}m
    <<"{", "s", "u", "b", "}", "=", "λ", "m", ".", "λ", "n", ".", "n", "{",
      "p", "r", "e", "d", "}", "m">>,
    \* {zero?}=λn.n(λx.{false}){true}
    <<"{", "z", "e", "r", "o", "?", "}", "=", "λ", "n", ".", "n", "(", "λ",
      "x", ".", "{", "f", "a", "l", "s", "e", "}", ")", "{", "t", "r", "u",
      "e", "}">>,
    \* {nil?}=λp.p(λx.λy.{false})
    <<"{", "n", "i", "l", "?", "}", "=", "λ", "p", ".", "p", "(", "λ", "x",
      ".", "λ", "y", ".", "{", "f", "a", "l", "s", "e", "}", ")">>,
    \* {lte?}=λm.λn.{zero?}({sub}mn)
    <<"{", "l", "t", "e", "?", "}", "=", "λ", "m", ".", "λ", "n", ".", "{",
      "z", "e", "r", "o", "?", "}", "(", "{", "s", "u", "b", "}", "m", "n",
      ")">>
  >>

\* shorthands[name] = term
DictSet(d, k, v) == [i \in DOMAIN d \cup {k} |-> IF i = k THEN v ELSE d[i]]

EmptyDict == [i \in {} |-> None]


-----------------------------------------------------------------------------
(* Input lines.  The user's lines are drawn from the printed forms of all  *)
(* terms of at most MaxSize nodes over two variable names and two          *)
(* shorthand references, the numerals up to MaxNumeral alone and under     *)
(* {succ}, and a list of definitions, references and ill-formed lines.     *)

MaxSize == 4

MaxNumeral == 3

MaxLines == 2

MaxSteps == 4

Names == {"x", "y"}

RefNames == {<<"t", "r", "u", "e">>, <<"a", "n", "d">>}

Leaves ==
  {Variable(v, 0) : v \in Names} \cup {Shorthand(r) : r \in RefNames}

RECURSIVE TermsOfSize(_)
\* The unbound terms of exactly k nodes; a shorthand reference is a leaf.
TermsOfSize(k) ==
  IF k = 1 THEN Leaves
  ELSE {AbstractionNoBind(Variable(v, 0), b) :
          v \in Names, b \in TermsOfSize(k - 1)}
       \cup UNION {{Application(m, n) :
                      m \in TermsOfSize(i), n \in TermsOfSize(k - 1 - i)} :
                   i \in 1..(k - 2)}

TermLines == {lrepr(t) : t \in UNION {TermsOfSize(k) : k \in 1..MaxSize}}

\* The text of a numeral below ten.
NumeralText(n) == <<Digits[n + 1]>>

NumeralLines == {NumeralText(n) : n \in 0..(MaxNumeral + 1)}

SuccLine(n) == <<"{", "s", "u", "c", "c", "}">> \o NumeralText(n)

SuccLines == {SuccLine(n) : n \in 0..MaxNumeral}

ExtraLines ==
  {
    \* definitions
    <<"{", "i", "}", "=", "λ", "x", ".", "x">>,
    <<"{", "w", "}", "=", "λ", "x", ".", "x", "x">>,
    <<"{", "a", "}", "=", "λ", "x", ".", "λ", "y", ".", "x", "y">>,
    <<"{", "t", "r", "u", "e", "}", "=", "λ", "x", ".", "λ", "y", ".", "y">>,
    <<"{", "b", "}", "=", "λ", "x", ".", "y">>,
    <<"{", "3", "}", "=", "λ", "x", ".", "x">>,
    <<"{", "1", "a", "}", "=", "λ", "x", ".", "x">>,
    <<"{", "a", "}", "=", "{", "b", "}">>,
    \* references
    <<"{", "i", "}">>,
    <<"{", "w", "}", "{", "w", "}">>,
    <<"{", "a", "}", "{", "a", "}">>,
    <<"{", "S", "u", "c", "c", "}">>,
    <<"{", "f", "o", "o", "}">>,
    <<"{", "1", "a", "}">>,
    <<"{", "s", "u", "c", "c", "}", "{", "f", "o", "o", "}">>,
    \* terms the documentation names
    <<"λ", "x", ".", "x", "(", "λ", "x", ".", "x", ")">>,
    <<"λ", "y", ".", "(", "λ", "x", ".", "λ", "y", ".", "x", ")", "y">>,
    <<"(", "λ", "x", ".", "x", "x", ")", "(", "λ", "y", ".", "λ", "z", ".", "y", "z", ")">>,
    <<"λ", "f", ".", "λ", "x", ".", "f", "(", "f", "x", ")">>,
    <<"λ", "f", ".", "λ", "x", ".", "f", "f", "x">>,
    <<"λ", "f", ".", "λ", "x", ".", "f", "(", "f", "(", "f", "x", ")", ")">>,
    <<"λ", "f", ".", "λ", "x", ".", "(", "(", "f", "f", ")", "f", ")", "x">>,
    <<"(", "λ", "x", ".", "x", ")", "a">>,
    \* redundant parentheses and blanks
    <<"λ", "x", ".", "(", "x", ")">>,
    <<"(", "(", "λ", "x", ".", "x", ")", ")">>,
    <<" ", "λ", "x", ".", " ", "x", " ">>,
    <<"(", "λ", "x", ".", "x", ")", " ", "(", "λ", "y", ".", "y", ")">>,
    \* malformed and incomplete lines
    <<"{">>,
    <<"x", "}">>,
    <<"{", "}">>,
    <<"(", "x">>,
    <<"λ", "x">>,
    <<")">>,
    <<"λ", "x", "y", ".", "x">>,
    <<"x", "=", "y">>,
    <<"λ", "x", ".", "x", "{">>
  }

Lines == TermLines \cup NumeralLines \cup SuccLines \cup ExtraLines

-----------------------------------------------------------------------------
(* State *)

VARIABLES
  shorthands,   \* repl's table: shorthand name -> term
  id_counter,   \* Variable.id_counter
  pc,           \* where repl() is
  loaded,       \* how many of the defaults the preload loop has parsed
  lines,        \* how many lines input() has returned
  iput,         \* the line being handled
  term,         \* show_reduction's term: the input, then each term yielded
  steps,        \* how many terms recursive_reduction has yielded
  church,       \* church_to_int(term) as show_reduction reports it
  matches,      \* the shorthands show_reduction reports as alpha-equivalent
  error         \* the exception raised while handling the line

vars ==
  <<shorthands, id_counter, pc, loaded, lines, iput, term, steps, church,
    matches, error>>

Init ==
  /\ shorthands = EmptyDict
  /\ id_counter = 0
  /\ pc = "preload"
  /\ loaded = 0
  /\ lines = 0
  /\ iput = <<>>
  /\ term = None
  /\ steps = 0
  /\ church = None
  /\ matches = {}
  /\ error = None

\* for d in defaults: defn = parse(tokenize(d), shorthands);
\*                    shorthands[defn.name] = defn.term
LoadDefault ==
  /\ pc = "preload"
  /\ loaded < Len(defaults)
  /\ loaded' = loaded + 1
  /\ LET p == parse(defaults[loaded + 1], shorthands, id_counter)
     IN  /\ id_counter' = p.ctr
         /\ IF IsError(p.result) THEN
              \* nothing catches an exception here
              /\ error' = p.result
              /\ pc' = "crashed"
              /\ UNCHANGED shorthands
            ELSE
              /\ shorthands' =
                   DictSet(shorthands, p.result.name, p.result.term)
              /\ UNCHANGED <<pc, error>>
  /\ UNCHANGED <<lines, iput, term, steps, church, matches>>

\* The preload loop is over: repl() reaches its while True loop.
StartLoop ==
  /\ pc = "preload"
  /\ loaded = Len(defaults)
  /\ pc' = "input"
  /\ UNCHANGED <<shorthands, id_counter, loaded, lines, iput, term, steps,
                 church, matches, error>>

\* What repl does with the outcome p of parse: a SyntaxError is caught and
\* printed, any other exception ends the process, a Definition is stored,
\* a term with a free variable is turned away, and a closed term enters
\* show_reduction.
Dispatch(p) ==
  LET r == p.result
  IN  /\ id_counter' = p.ctr
      /\ IF IsError(r) THEN
           /\ error' = r
           /\ pc' = IF r.exc = "SyntaxError" THEN "rejected" ELSE "crashed"
           /\ UNCHANGED <<shorthands, term>>
         ELSE IF r.type = "Definition" THEN
           /\ shorthands' = DictSet(shorthands, r.name, r.term)
           /\ pc' = "defined"
           /\ UNCHANGED <<term, error>>
         ELSE IF ~bound(r) THEN
           /\ pc' = "unbound"
           /\ UNCHANGED <<shorthands, term, error>>
         ELSE
           /\ term' = r
           /\ pc' = "reducing"
           /\ UNCHANGED <<shorthands, error>>

\* iput = input("λ> "), a line that is not blank, and its parse.
ReadLine(line) ==
  /\ pc = "input"
  /\ lines < MaxLines
  /\ lines' = lines + 1
  /\ iput' = line
  /\ Dispatch(parse(line, shorthands, id_counter))
  /\ UNCHANGED <<loaded, steps, church, matches>>

\* for term in recursive_reduction(term): print the term yielded
BetaStep ==
  /\ pc = "reducing"
  /\ steps < MaxSteps
  /\ LET t == recursive_reduction(term)
     IN  /\ t.type # "StopIteration"
         /\ term' = t
  /\ steps' = steps + 1
  /\ UNCHANGED <<shorthands, id_counter, pc, loaded, lines, iput, church,
                 matches, error>>

\* The generator is exhausted: church_to_int(term), then term.alpha_eq(v)
\* for every shorthand.  An exception out of church_to_int is not caught.
Recognize ==
  /\ pc = "reducing"
  /\ recursive_reduction(term).type = "StopIteration"
  /\ LET c == church_to_int(term)
     IN  IF IsError(c) THEN
           /\ error' = c
           /\ pc' = "crashed"
           /\ UNCHANGED <<church, matches>>
         ELSE
           /\ church' = c
           /\ matches' = {k \in DOMAIN shorthands :
                            alpha_eq(term, shorthands[k], EmptyRenames)}
           /\ pc' = "shown"
           /\ UNCHANGED error
  /\ UNCHANGED <<shorthands, id_counter, loaded, lines, iput, term, steps>>

\* Back to input(): the locals of the line just handled are gone.
Prompt ==
  /\ pc \in {"rejected", "defined", "unbound", "shown"}
  /\ pc' = "input"
  /\ iput' = <<>>
  /\ term' = None
  /\ steps' = 0
  /\ church' = None
  /\ matches' = {}
  /\ error' = None
  /\ UNCHANGED <<shorthands, id_counter, loaded, lines>>

\* EOFError from input(): repl() returns.
EndOfFile ==
  /\ pc = "input"
  /\ pc' = "exited"
  /\ UNCHANGED <<shorthands, id_counter, loaded, lines, iput, term, steps,
                 church, matches, error>>

Next ==
  \/ LoadDefault
  \/ StartLoop
  \/ \E line \in Lines : ReadLine(line)
  \/ BetaStep
  \/ Recognize
  \/ Prompt
  \/ EndOfFile

Spec == Init /\ [][Next]_vars

-----------------------------------------------------------------------------
(* Notions the properties below are stated with.  They are defined on the  *)
(* term structure alone and use none of the operators that model lc.py's   *)
(* algorithms.                                                             *)

RECURSIVE NormalForm(_)
\* No Application anywhere in t has an Abstraction in function position.
NormalForm(t) ==
  CASE t.type = "Variable" -> TRUE
    [] t.type = "Abstraction" -> NormalForm(t.term)
    [] t.type = "Application" ->
         /\ t.m.type # "Abstraction"
         /\ NormalForm(t.m)
         /\ NormalForm(t.n)

\* The innermost position in scope (a sequence, outermost first) that
\* satisfies Hit, 0 when there is none.
Innermost(scope, Hit(_)) ==
  LET hits == {i \in DOMAIN scope : Hit(scope[i])}
  IN  IF hits = {} THEN 0
      ELSE CHOOSE i \in hits : \A j \in hits : j <= i

RECURSIVE DeBruijn(_, _)
\* t with every binder's name and id dropped and every Variable replaced
\* by the distance to the Abstraction that carries its id (0: none does).
\* ids is the sequence of the ids of the enclosing binders.
DeBruijn(t, ids) ==
  CASE t.type = "Variable" ->
         LET i == Innermost(ids, LAMBDA b : b = t.id)
         IN  <<"var", IF i = 0 THEN 0 ELSE Len(ids) + 1 - i>>
    [] t.type = "Abstraction" ->
         <<"abs", DeBruijn(t.term, Append(ids, t.var.id))>>
    [] t.type = "Application" ->
         <<"app", DeBruijn(t.m, ids), DeBruijn(t.n, ids)>>

\* Same shape, and corresponding Variables refer to corresponding binders.
SameUpToBinderNames(a, b) == DeBruijn(a, <<>>) = DeBruijn(b, <<>>)

RECURSIVE LexicallyScoped(_, _)
\* Every Variable of t is bound, and carries the id of the innermost
\* enclosing Abstraction whose variable has its name.  binders is the
\* sequence of the enclosing Abstractions' variables.
LexicallyScoped(t, binders) ==
  CASE t.type = "Variable" ->
         LET i == Innermost(binders, LAMBDA b : b.name = t.name)
         IN  t.bound /\ i # 0 /\ t.id = binders[i].id
    [] t.type = "Abstraction" ->
         LexicallyScoped(t.term, Append(binders, t.var))
    [] t.type = "Application" ->
         LexicallyScoped(t.m, binders) /\ LexicallyScoped(t.n, binders)

RECURSIVE HasShadowing(_, _)
\* Some Abstraction of t reuses the name of an Abstraction it lies in.
HasShadowing(t, names) ==
  CASE t.type = "Variable" -> FALSE
    [] t.type = "Abstraction" ->
         t.var.name \in names \/ HasShadowing(t.term, names \cup {t.var.name})
    [] t.type = "Application" ->
         HasShadowing(t.m, names) \/ HasShadowing(t.n, names)

RECURSIVE DistinctNestedBinders(_, _)
\* No Abstraction of t carries the id of an Abstraction it lies in.
DistinctNestedBinders(t, ids) ==
  CASE t.type = "Variable" -> TRUE
    [] t.type = "Abstraction" ->
         /\ t.var.id \notin ids
         /\ DistinctNestedBinders(t.term, ids \cup {t.var.id})
    [] t.type = "Application" ->
         DistinctNestedBinders(t.m, ids) /\ DistinctNestedBinders(t.n, ids)

RECURSIVE FreeIds(_, _)
\* The ids of the Variables of t that no Abstraction of t binds.
FreeIds(t, ids) ==
  CASE t.type = "Variable" -> IF t.id \in ids THEN {} ELSE {t.id}
    [] t.type = "Abstraction" -> FreeIds(t.term, ids \cup {t.var.id})
    [] t.type = "Application" -> FreeIds(t.m, ids) \cup FreeIds(t.n, ids)

RECURSIVE BindersOver(_, _, _)
\* The ids of the Abstractions of t that enclose a Variable of id vid.
BindersOver(t, vid, ids) ==
  CASE t.type = "Variable" -> IF t.id = vid THEN ids ELSE {}
    [] t.type = "Abstraction" -> BindersOver(t.term, vid, ids \cup {t.var.id})
    [] t.type = "Application" ->
         BindersOver(t.m, vid, ids) \cup BindersOver(t.n, vid, ids)

RECURSIVE HeadRedexes(_)
\* The redexes of t on its spine: under Abstractions and down function
\* positions.  (The redex a step contracts is one of them.)
HeadRedexes(t) ==
  CASE t.type = "Variable" -> {}
    [] t.type = "Abstraction" -> HeadRedexes(t.term)
    [] t.type = "Application" ->
         IF t.m.type = "Abstraction" THEN {t} ELSE HeadRedexes(t.m)

\* Contracting the redex r = (λx.body) arg puts a Variable of arg that arg
\* does not bind under an Abstraction of body that carries its id.
Captures(r) ==
  FreeIds(r.n, {}) \cap BindersOver(r.m.term, r.m.var.id, {}) # {}

RECURSIVE CanonicalBody(_, _, _)
\* n when body is f(f(...(f x)...)) with n applications of the Variable of
\* id f nested to the right around the Variable of id x; -1 otherwise.
CanonicalBody(body, f, x) ==
  CASE body.type = "Variable" -> IF body.id = x THEN 0 ELSE 0 - 1
    [] body.type = "Abstraction" -> 0 - 1
    [] body.type = "Application" ->
         IF body.m.type = "Variable" /\ body.m.id = f
         THEN LET k == CanonicalBody(body.n, f, x)
              IN  IF k < 0 THEN 0 - 1 ELSE k + 1
         ELSE 0 - 1

\* The number t is the canonical Church numeral of, -1 when it is none.
CanonicalNumeral(t) ==
  IF t.type = "Abstraction" /\ t.term.type = "Abstraction"
  THEN CanonicalBody(t.term.term, t.var.id, t.term.var.id)
  ELSE 0 - 1

Raised(exc) == error.type = "Error" /\ error.exc = exc

-----------------------------------------------------------------------------
(* Properties *)

Int(n) == [type |-> "int", value |-> n]

\* C1: with {succ} = λn.λf.λx.f(nfx) preloaded, the line {succ}n, for every
\* n up to MaxNumeral, reduces until recursive_reduction yields nothing
\* more to a term alpha_eq to church_numeral(n + 1).
C1_SuccReducesToSuccessor ==
  \A n \in 0..MaxNumeral :
    (pc = "shown" /\ iput = SuccLine(n))
      => alpha_eq(term, church_numeral(n + 1, id_counter).term, EmptyRenames)

\* C2: when the sequence of recursive_reduction has ended, the last term
\* (the input itself when nothing was yielded) is in normal form: it holds
\* no redex anywhere, argument positions and abstraction bodies included.
C2_ReductionEndsInNormalForm == pc = "shown" => NormalForm(term)

\* C3: reduction never captures a variable: in every term reached from a
\* parsed closed term, no binder lies inside a binder of the same id, and
\* contracting a redex (λx.body) arg puts no Variable of arg under an
\* Abstraction of body that carries its id.
C3_NoCapture ==
  pc = "reducing" =>
    /\ DistinctNestedBinders(term, {})
    /\ \A r \in HeadRedexes(term) : ~Captures(r)

\* parse(tokenize(t.lrepr())) is a term and is alpha_eq to t.
RoundTrips(t) ==
  LET p == parse(lrepr(t), shorthands, id_counter)
  IN  IsTerm(p.result) /\ alpha_eq(p.result, t, EmptyRenames)

\* C4: every closed term, as parsed and after any number of reduction
\* steps, is alpha_eq to the parse of its printed form.
C4_PrintParseRoundTrip == pc \in {"reducing", "shown"} => RoundTrips(term)

\* C5: church_to_int reports n exactly when the term is the canonical Church
\* numeral of n, λf.λx.f(f(...(f x)...)) nested to the right, and reports
\* no numeral for any other term, left-nested bodies included.
C5_DecodesExactlyCanonicalNumerals ==
  pc = "shown" =>
    church = IF CanonicalNumeral(term) >= 0
             THEN Int(CanonicalNumeral(term))
             ELSE NotANumeral

\* C6: church_to_int never raises: on every term it returns a number or
\* None, so show_reduction always gets to its report.
C6_DecodingNeverRaises ==
  /\ pc \in {"reducing", "shown"} =>
       church_to_int(term).type \in {"int", "None"}
  /\ ~(pc = "crashed" /\ Raised("AttributeError"))

ShadowLines ==
  {<<"λ", "x", ".", "λ", "x", ".", "x">>,
   <<"λ", "x", ".", "x", "(", "λ", "x", ".", "x", ")">>}

RebindingError == error.type = "Error" /\ error.msg = "already bound"

C8_AlphaEqIsAlphaEquivalence ==
  (pc = "reducing" /\ steps = 0) =>
    \A k \in DOMAIN shorthands :
      /\ alpha_eq(term, shorthands[k], EmptyRenames)
           = SameUpToBinderNames(term, shorthands[k])
      /\ alpha_eq(shorthands[k], term, EmptyRenames)
           = alpha_eq(term, shorthands[k], EmptyRenames)

\* λx.λy.x has been parsed: alpha_eq to {true} = λx.λy.x, which has other
\* ids, and not to {false} = λx.λy.y.
C8_Witness ==
  /\ pc = "reducing"
  /\ steps = 0
  /\ iput = <<"λ", "x", ".", "λ", "y", ".", "x">>
  /\ term # shorthands[<<"T", "R", "U", "E">>]
  /\ alpha_eq(term, shorthands[<<"T", "R", "U", "E">>], EmptyRenames)
  /\ ~alpha_eq(term, shorthands[<<"F", "A", "L", "S", "E">>], EmptyRenames)

\* C9: the numeral church_numeral builds for n, which the line n parses
\* to, is decoded by church_to_int as n; the numeral for 0 is λf.λx.x.
C9_NumeralDecodesToItself ==
  \A n \in 0..(MaxNumeral + 1) :
    (pc = "shown" /\ iput = NumeralText(n)) =>
      /\ church = Int(n)
      /\ n = 0 =>
           /\ lrepr(term) = <<"λ", "f", ".", "λ", "x", ".", "x">>
           /\ term.term.term.id = term.term.var.id

\* The line 3 has been parsed to a numeral and decoded as 3.
C9_Witness ==
  /\ pc = "shown"
  /\ iput = NumeralText(3)
  /\ steps = 0
  /\ church = Int(3)

ReferenceLines ==
  {<<"{", "i", "}">>, <<"{", "S", "u", "c", "c", "}">>,
   <<"{", "f", "o", "o", "}">>, <<"{", "1", "a", "}">>}

\* C10: a shorthand reference whose name is not digits only, {1a} included,
\* is looked up in the table: the line yields the registered term when the
\* name is there and the undefined-shorthand KeyError when it is not.
C10_NonNumeralNamesAreLookedUp ==
  \A line \in ReferenceLines :
    iput = line =>
      LET name == upper(SubSeq(line, 2, Len(line) - 1))
      IN  IF name \in DOMAIN shorthands
          THEN /\ error = None
               /\ pc \in {"reducing", "shown"}
               /\ steps = 0 => term = shorthands[name]
          ELSE pc = "crashed" /\ Raised("KeyError")

====
